---- MODULE Spec2Model ----
(***************************************************************************)
(* The reservation engine of Aermax/evcharge: the two booking routes of    *)
(* the HTTP server (POST /api/bookings, PATCH /api/bookings/:id/status)    *)
(* over the two storage back ends of server/mongoClient.ts (MemStorage and *)
(* MongoStorage).  A request is a process; every `await` on a storage call *)
(* is a point where another request may run.                               *)
(*                                                                         *)
(* Times of day are minutes since midnight (600 is "10:00"), dates are day *)
(* numbers: the server stores the strings it is given and never parses or  *)
(* compares them, so only the claims' formulas interpret them.  createdAt, *)
(* vehicleInfo and specialRequests are stored verbatim, never read by the  *)
(* server, and are left out.                                               *)
(***************************************************************************)
EXTENDS Integers, Sequences, FiniteSets, TLC

VARIABLES
    backend,            \* which IStorage implementation `storage` is
    ports,              \* the ports collection: id -> [stationId, status]
    bookings,           \* the bookings collection, in insertion order
    currentBookingId,   \* MemStorage.currentBookingId
    req,                \* the requests in flight, one per server task
    last,               \* the response sent since the last arrival (history)
    freed               \* ids of the bookings whose latest 200 from the PATCH
                        \* route was for a cancellation (history)

vars == <<backend, ports, bookings, currentBookingId, req, last, freed>>

(***************************************************************************)
(* Bounds of the model.                                                    *)
(***************************************************************************)
NumProcs == 2
NumUsers == 2
MaxBookings == 2

Procs == 1..NumProcs
Users == 1..NumUsers
\* req.user of a request for which req.isAuthenticated() is false
NoUser == 0

(***************************************************************************)
(* The seeded catalog: MemStorage.seedStations, copied into MongoDB by     *)
(* MongoStorage.seedData.  Stations 1..4, ports 1..13.                     *)
(***************************************************************************)
SeedPort(s, st) == [stationId |-> s, status |-> st]

SeedPorts ==
    << SeedPort(1, "available"), SeedPort(1, "available"),
       SeedPort(1, "available"), SeedPort(1, "in-use"),
       SeedPort(2, "available"), SeedPort(2, "in-use"),
       SeedPort(3, "available"), SeedPort(3, "available"),
       SeedPort(3, "available"), SeedPort(3, "available"),
       SeedPort(3, "available"),
       SeedPort(4, "available"), SeedPort(4, "in-use") >>

StationIds == {SeedPorts[i].stationId : i \in DOMAIN SeedPorts}

(***************************************************************************)
(* Values.                                                                 *)
(***************************************************************************)
\* what Map.get and findOne give when nothing matches
Undefined == [undefined |-> TRUE]

\* the four statuses the PATCH route accepts
BookingStatuses == {"pending", "confirmed", "completed", "cancelled"}

\* { ...r, k: v }
WithField(r, k, v) == [x \in DOMAIN r \cup {k} |-> IF x = k THEN v ELSE r[x]]

\* the columns of the bookings table that insertBookingSchema keeps
BookingKeys ==
    {"userId", "stationId", "portId", "date", "startTime", "endTime",
     "duration", "status"}

\* the notNull columns without a default: the keys parse() requires
RequiredKeys == BookingKeys \ {"status"}

\* insertBookingSchema.parse(raw) throws a ZodError unless this holds
ParseOk(raw) == RequiredKeys \subseteq DOMAIN raw

\* the value insertBookingSchema.parse(raw) returns: unknown keys stripped,
\* an absent optional key stays absent
Parsed(raw) == [k \in DOMAIN raw \cap BookingKeys |-> raw[k]]

\* { userId: req.user?.id, ...req.body }: a userId in the body wins
UserUnderBody(body, user) ==
    IF "userId" \in DOMAIN body THEN body ELSE WithField(body, "userId", user)

\* { ...req.body, userId: req.user?.id }, the argument of parse()
WithUser(body, user) == WithField(body, "userId", user)

(***************************************************************************)
(* The requests the clients send.                                          *)
(***************************************************************************)
Window(d, s, e, m) == [date |-> d, startTime |-> s, endTime |-> e, duration |-> m]

W1 == Window(1, 600, 660, 60)      \* day 1, 10:00-11:00
W2 == Window(1, 630, 660, 30)      \* day 1, 10:30-11:00, inside W1
W3 == Window(1, 660, 690, 30)      \* day 1, 11:00-11:30, adjacent to W1
W4 == Window(2, 600, 660, 60)      \* day 2, 10:00-11:00
WLong == Window(1, 600, 750, 150)  \* 150 minutes
WBack == Window(1, 660, 600, 60)   \* ends before it starts

Body(st, p, w) ==
    [stationId |-> st, portId |-> p, date |-> w.date,
     startTime |-> w.startTime, endTime |-> w.endTime, duration |-> w.duration]

\* the body booking-form.tsx sends: status "confirmed" and payment fields
PaidBody(st, p, w) ==
    WithField(WithField(Body(st, p, w), "status", "confirmed"), "paymentMethod", "upi")

PostReq(u, b) == [kind |-> "post", user |-> u, id |-> 0, body |-> b]
PatchReq(u, i, s) == [kind |-> "patch", user |-> u, id |-> i, body |-> [status |-> s]]

\* bodies the booking form can send, and one with keys missing
PostBodies ==
    { Body(1, 1, W1), Body(1, 1, W2), Body(1, 1, W3), Body(1, 1, W4),
      Body(1, 2, W1),                      \* another port of station 1
      Body(1, 4, W1),                      \* a port seeded "in-use"
      Body(1, 14, W1),                     \* no such port
      PaidBody(1, 1, W1),
      [stationId |-> 1, date |-> 1, startTime |-> 600] }

\* bodies no form sends
OddBodies ==
    { Body(1, 1, W1),
      WithField(Body(1, 1, W1), "status", "bogus"),
      WithField(Body(1, 1, W1), "userId", 2),
      Body(2, 1, W1),                      \* port 1 is not at station 2
      Body(9, 1, W1),                      \* no such station
      Body(1, 1, WLong), Body(1, 1, WBack) }

PatchRequests ==
    {PatchReq(u, i, s) : u \in Users, i \in 1..(MaxBookings + 1),
                         s \in BookingStatuses \cup {"bogus"}}
        \cup {PatchReq(NoUser, 1, "cancelled")}

Requests ==
    {PostReq(1, b) : b \in PostBodies}
        \cup {PostReq(u, Body(1, 1, W1)) : u \in Users \cup {NoUser}}
        \cup PatchRequests

OddRequests ==
    {PostReq(u, b) : u \in Users, b \in OddBodies} \cup PatchRequests

\* the requests that are sent while others are in flight
ConcRequests ==
    {PostReq(1, b) : b \in {Body(1, 1, W1), Body(1, 1, W2), Body(1, 2, W1)}}
        \cup {PostReq(u, Body(1, 1, W1)) : u \in Users}
        \cup {PatchReq(1, i, "cancelled") : i \in 1..MaxBookings}

(***************************************************************************)
(* Storage reads.                                                          *)
(***************************************************************************)
\* MemStorage.getPort / MongoStorage.getPort
GetPort(id) == IF id \in DOMAIN ports THEN ports[id] ELSE Undefined

\* position of the first booking with this id, 0 if none
FindIndex(id) ==
    IF \E i \in DOMAIN bookings : bookings[i].id = id
    THEN CHOOSE i \in DOMAIN bookings :
            /\ bookings[i].id = id
            /\ \A j \in DOMAIN bookings : bookings[j].id = id => i <= j
    ELSE 0

\* MemStorage.getBooking / MongoStorage.getBooking
GetBooking(id) == IF FindIndex(id) = 0 THEN Undefined ELSE bookings[FindIndex(id)]

\* the id MongoStorage.createBooking computes: max id + 1, or 1
NextMongoId ==
    IF bookings = <<>> THEN 1
    ELSE (CHOOSE m \in {bookings[i].id : i \in DOMAIN bookings} :
            \A i \in DOMAIN bookings : bookings[i].id <= m) + 1

(***************************************************************************)
(* Storage writes, as the value of the collection afterwards.              *)
(***************************************************************************)
\* PortsWithStatus with the station in place of the id as the filter: every
\* port of the station is updated
PortsOfStationWithStatus(id, status) ==
    IF id \in DOMAIN ports
    THEN [q \in DOMAIN ports |->
            IF ports[q].stationId = ports[id].stationId
            THEN [ports[q] EXCEPT !.status = status] ELSE ports[q]]
    ELSE ports

\* ports.set(id, {...port, status}) / ports.updateOne({id}, {$set: {status}})
PortsWithStatus(id, status) ==
    IF id \in DOMAIN ports THEN [ports EXCEPT ![id].status = status] ELSE ports

\* bookings.set(id, booking): replaces the entry with this id, else adds one
BookingsSet(b) ==
    IF FindIndex(b.id) = 0 THEN Append(bookings, b)
    ELSE [bookings EXCEPT ![FindIndex(b.id)] = b]

\* BookingsWithStatus without the filter on the id: every booking is updated
BookingsAllWithStatus(id, status) ==
    [i \in DOMAIN bookings |-> WithField(bookings[i], "status", status)]

\* BookingsWithStatus that removes a booking when it is cancelled
BookingsDropCancelled(id, status) ==
    IF FindIndex(id) = 0 THEN bookings
    ELSE IF status = "cancelled"
    THEN SelectSeq(bookings, LAMBDA b : b.id # id)
    ELSE [bookings EXCEPT ![FindIndex(id)] = WithField(@, "status", status)]

\* {...booking, status} on the first booking with this id
BookingsWithStatus(id, status) ==
    IF FindIndex(id) = 0 THEN bookings
    ELSE [bookings EXCEPT ![FindIndex(id)] = WithField(@, "status", status)]

\* booking.status as a reader sees it
Status(b) == IF "status" \in DOMAIN b THEN b.status ELSE "undefined"

\* status: insertBooking.status || "pending"  (MongoStorage.createBooking)
MongoStatus(data) ==
    IF "status" \in DOMAIN data /\ data.status # "" THEN data.status ELSE "pending"

(***************************************************************************)
(* Requests in flight.  pc names the await the task is suspended at.       *)
(*   received      the request has arrived, the handler has not run        *)
(*   checkPort     MemStorage: getPort has returned its snapshot           *)
(*   getPort       MongoStorage: ports.findOne is pending                  *)
(*   maxId, insert, setInUse    MongoStorage.createBooking                 *)
(*   checkBooking  MemStorage: getBooking has returned its snapshot        *)
(*   getBooking    MongoStorage: bookings.findOne is pending               *)
(*   updateOne, setAvailable    MongoStorage.updateBookingStatus           *)
(*   findPorts     MongoStorage.getPortsByStationId: ports.find is pending *)
(*   findBookings  MongoStorage.getBookingsByUserId: bookings.find pending *)
(*   enrich        MongoStorage: the findOne calls of the listing pending  *)
(*   updatePort, reloadPort     MongoStorage.updatePortStatus, called alone *)
(***************************************************************************)
Idle ==
    [pc |-> "idle", r |-> PatchReq(NoUser, 0, ""), data |-> Undefined,
     snap |-> Undefined, id |-> 0,
     rivalWon |-> FALSE, again |-> FALSE, was |-> ""]

NoResponse == [kind |-> "none", code |-> 0, id |-> 0, status |-> ""]

InFlight(p) == req[p].pc # "idle"

MongoAwaits ==
    {"getPort", "maxId", "insert", "setInUse", "getBooking", "updateOne", "setAvailable",
     "findPorts", "findBookings", "enrich"}

Init ==
    /\ backend \in {"mem", "mongo"}
    /\ ports = SeedPorts
    /\ bookings = <<>>
    /\ currentBookingId = 1
    /\ req = [p \in Procs |-> Idle]
    /\ last = NoResponse
    /\ freed = {}

\* half-open intervals [startTime, endTime) on the same date that intersect
Overlaps(a, b) ==
    /\ a.date = b.date
    /\ a.startTime < b.endTime
    /\ b.startTime < a.endTime

\* the request at q has had its port read answered and has not yet answered
HasReadPort(q) == req[q].pc \in {"checkPort", "maxId", "insert", "setInUse"}

\* res.status(code).json(...): the task ends.  History: last keeps the code,
\* and of a PATCH answered 200 the booking and the status; a 201 is noted by
\* every request that has read the same port for an overlapping window and
\* is still in flight; freed follows the 200s of the PATCH route.
Respond(p, code) ==
    /\ last' = IF req[p].r.kind = "patch" /\ code = 200
               THEN [kind |-> "patch", code |-> code, id |-> req[p].r.id,
                     status |-> req[p].r.body.status]
               ELSE [kind |-> req[p].r.kind, code |-> code, id |-> 0, status |-> ""]
    /\ req' = [q \in Procs |->
                IF q = p THEN Idle
                ELSE IF /\ code = 201
                        /\ HasReadPort(q)
                        /\ req[q].data.portId = req[p].data.portId
                        /\ Overlaps(req[q].data, req[p].data)
                     THEN [req[q] EXCEPT !.rivalWon = TRUE]
                     ELSE req[q]]
    /\ freed' = IF req[p].r.kind = "patch" /\ code = 200
                THEN IF req[p].r.body.status = "cancelled"
                     THEN freed \cup {req[p].r.id} ELSE freed \ {req[p].r.id}
                ELSE freed

Goto(p, pc) == req' = [req EXCEPT ![p].pc = pc] /\ UNCHANGED <<last, freed>>

\* the request repeats the one answered 200 just before it: the same status
\* for the same booking
Repeats(r) ==
    /\ r.kind = "patch"
    /\ last.kind = "patch"
    /\ last.code = 200
    /\ last.id = r.id
    /\ last.status = r.body.status

\* no request is in flight
Quiet == \A q \in Procs : ~InFlight(q)

\* the model creates at most MaxBookings bookings
CanCreate == Len(bookings) < MaxBookings

\* a POST that the handler would let through to createBooking if it ran now
WouldCreate(r) ==
    /\ r.kind = "post"
    /\ r.user # NoUser
    /\ ParseOk(WithUser(r.body, r.user))
    /\ GetPort(r.body.portId) # Undefined
    /\ GetPort(r.body.portId).status = "available"

\* a request arrives at task p.  History: whether it repeats the request
\* before it, and the status its booking has on arrival.
Receive(p, r) ==
    /\ ~InFlight(p)
    /\ WouldCreate(r) =>
          Len(bookings)
            + Cardinality({q \in Procs : InFlight(q) /\ req[q].r.kind = "post"})
            < MaxBookings
    /\ req' = [req EXCEPT ![p] =
                [Idle EXCEPT !.pc = "received", !.r = r, !.again = Repeats(r),
                             !.was = IF r.kind = "patch" /\ GetBooking(r.id) # Undefined
                                     THEN Status(GetBooking(r.id)) ELSE ""]]
    /\ last' = NoResponse
    /\ UNCHANGED <<backend, ports, bookings, currentBookingId, freed>>

(***************************************************************************)
(* POST /api/bookings                                                      *)
(***************************************************************************)
\* the handler up to its first await: the session check, parse(), and the
\* call of storage.getPort (MemStorage reads the Map during the call)
PostEnter(p) ==
    /\ req[p].pc = "received"
    /\ req[p].r.kind = "post"
    /\ LET r == req[p].r
           raw == WithUser(r.body, r.user)
       IN  IF r.user = NoUser THEN Respond(p, 401)
           ELSE IF ~ParseOk(raw) THEN Respond(p, 400)
           ELSE /\ req' = [req EXCEPT
                     ![p].data = Parsed(raw),
                     ![p].snap = IF backend = "mem" THEN GetPort(raw.portId)
                                 ELSE Undefined,
                     ![p].pc = IF backend = "mem" THEN "checkPort" ELSE "getPort"]
                /\ UNCHANGED <<last, freed>>
    /\ UNCHANGED <<backend, ports, bookings, currentBookingId>>

\* MemStorage.createBooking, which runs without a pause: the Map insert and
\* updatePortStatus(portId, "in-use"), which throws when the port is gone
MemCreateBooking(p) ==
    LET data == req[p].data
        booking == WithField(data, "id", currentBookingId)
    IN  /\ CanCreate
        /\ currentBookingId' = currentBookingId + 1
        /\ bookings' = BookingsSet(booking)
        /\ ports' = PortsWithStatus(data.portId, "in-use")
        /\ Respond(p, IF data.portId \in DOMAIN ports THEN 201 ELSE 500)

\* PostCheckPort with the two checks of the port left out: the handler calls
\* createBooking whatever getPort returned
PostCheckPortUnchecked(p) ==
    /\ req[p].pc = "checkPort"
    /\ MemCreateBooking(p)
    /\ UNCHANGED backend

\* the handler after `await storage.getPort` under MemStorage
PostCheckPort(p) ==
    /\ req[p].pc = "checkPort"
    /\ LET port == req[p].snap
       IN  IF port = Undefined
           THEN Respond(p, 404) /\ UNCHANGED <<ports, bookings, currentBookingId>>
           ELSE IF port.status # "available"
           THEN Respond(p, 400) /\ UNCHANGED <<ports, bookings, currentBookingId>>
           ELSE MemCreateBooking(p)
    /\ UNCHANGED backend

\* ports.findOne answers; the handler checks the port and calls createBooking
PostGetPort(p) ==
    /\ req[p].pc = "getPort"
    /\ LET port == GetPort(req[p].data.portId)
       IN  IF port = Undefined THEN Respond(p, 404)
           ELSE IF port.status # "available" THEN Respond(p, 400)
           ELSE CanCreate /\ Goto(p, "maxId")
    /\ UNCHANGED <<backend, ports, bookings, currentBookingId>>

\* MongoStorage.createBooking: find().sort({id: -1}).limit(1) answers
MongoMaxId(p) ==
    /\ req[p].pc = "maxId"
    /\ req' = [req EXCEPT ![p].id = NextMongoId, ![p].pc = "insert"]
    /\ UNCHANGED <<backend, ports, bookings, currentBookingId, last, freed>>

\* MongoStorage.createBooking: insertOne(booking)
MongoInsert(p) ==
    /\ req[p].pc = "insert"
    /\ LET data == req[p].data
           booking == WithField(WithField(data, "id", req[p].id),
                                "status", MongoStatus(data))
       IN  bookings' = Append(bookings, booking)
    /\ Goto(p, "setInUse")
    /\ UNCHANGED <<backend, ports, currentBookingId>>

\* MongoStorage.updatePortStatus(portId, "in-use"), then the 201
MongoSetInUse(p) ==
    /\ req[p].pc = "setInUse"
    /\ ports' = PortsWithStatus(req[p].data.portId, "in-use")
    /\ Respond(p, IF req[p].data.portId \in DOMAIN ports THEN 201 ELSE 500)
    /\ UNCHANGED <<backend, bookings, currentBookingId>>

\* a MongoDB call rejects (connection lost, timeout): the handler's catch
MongoFail(p) ==
    /\ backend = "mongo"
    /\ req[p].pc \in MongoAwaits
    /\ Respond(p, 500)
    /\ UNCHANGED <<backend, ports, bookings, currentBookingId>>

(***************************************************************************)
(* PATCH /api/bookings/:id/status                                          *)
(***************************************************************************)
\* !status || !["pending", "confirmed", "completed", "cancelled"].includes(status)
InvalidStatus(status) == status = "" \/ status \notin BookingStatuses

\* NotOwner with the comparison left out: every user passes for the owner
NotOwnerUnchecked(booking, user) == FALSE

\* booking.userId !== req.user?.id
NotOwner(booking, user) == booking.userId # user

\* status === "cancelled" || status === "completed"
FreesPort(status) == status \in {"cancelled", "completed"}

\* PatchEnter with the session check left out
PatchEnterNoSession(p) ==
    /\ req[p].pc = "received"
    /\ req[p].r.kind = "patch"
    /\ LET r == req[p].r
       IN  IF InvalidStatus(r.body.status) THEN Respond(p, 400)
           ELSE /\ req' = [req EXCEPT
                     ![p].snap = IF backend = "mem" THEN GetBooking(r.id)
                                 ELSE Undefined,
                     ![p].pc = IF backend = "mem" THEN "checkBooking"
                               ELSE "getBooking"]
                /\ UNCHANGED <<last, freed>>
    /\ UNCHANGED <<backend, ports, bookings, currentBookingId>>

\* the handler up to its first await: the session check, the status check,
\* and the call of storage.getBooking
PatchEnter(p) ==
    /\ req[p].pc = "received"
    /\ req[p].r.kind = "patch"
    /\ LET r == req[p].r
       IN  IF r.user = NoUser THEN Respond(p, 401)
           ELSE IF InvalidStatus(r.body.status) THEN Respond(p, 400)
           ELSE /\ req' = [req EXCEPT
                     ![p].snap = IF backend = "mem" THEN GetBooking(r.id)
                                 ELSE Undefined,
                     ![p].pc = IF backend = "mem" THEN "checkBooking"
                               ELSE "getBooking"]
                /\ UNCHANGED <<last, freed>>
    /\ UNCHANGED <<backend, ports, bookings, currentBookingId>>

\* MemStorage.updateBookingStatus, which runs without a pause
MemUpdateBookingStatus(p) ==
    LET id == req[p].r.id
        status == req[p].r.body.status
        booking == GetBooking(id)
    IN  IF booking = Undefined
        THEN Respond(p, 500) /\ UNCHANGED <<ports, bookings>>
        ELSE /\ bookings' = BookingsWithStatus(id, status)
             /\ IF FreesPort(status)
                THEN /\ ports' = PortsWithStatus(booking.portId, "available")
                     /\ Respond(p, IF booking.portId \in DOMAIN ports
                                   THEN 200 ELSE 500)
                ELSE UNCHANGED ports /\ Respond(p, 200)

\* PatchCheckBooking with the `!booking` check left out: booking.userId
\* throws on a missing booking and the catch answers 500
PatchCheckBookingNoLookup(p) ==
    /\ req[p].pc = "checkBooking"
    /\ LET booking == req[p].snap
       IN  IF booking = Undefined
           THEN Respond(p, 500) /\ UNCHANGED <<ports, bookings>>
           ELSE IF NotOwner(booking, req[p].r.user)
           THEN Respond(p, 403) /\ UNCHANGED <<ports, bookings>>
           ELSE MemUpdateBookingStatus(p)
    /\ UNCHANGED <<backend, currentBookingId>>

\* the handler after `await storage.getBooking` under MemStorage
PatchCheckBooking(p) ==
    /\ req[p].pc = "checkBooking"
    /\ LET booking == req[p].snap
       IN  IF booking = Undefined
           THEN Respond(p, 404) /\ UNCHANGED <<ports, bookings>>
           ELSE IF NotOwner(booking, req[p].r.user)
           THEN Respond(p, 403) /\ UNCHANGED <<ports, bookings>>
           ELSE MemUpdateBookingStatus(p)
    /\ UNCHANGED <<backend, currentBookingId>>

\* bookings.findOne answers; the handler checks the owner and calls
\* updateBookingStatus
PatchGetBooking(p) ==
    /\ req[p].pc = "getBooking"
    /\ LET booking == GetBooking(req[p].r.id)
       IN  IF booking = Undefined THEN Respond(p, 404)
           ELSE IF NotOwner(booking, req[p].r.user) THEN Respond(p, 403)
           ELSE Goto(p, "updateOne")
    /\ UNCHANGED <<backend, ports, bookings, currentBookingId>>

\* MongoStorage.updateBookingStatus: updateOne({id}, {$set: {status}}) and
\* the getBooking that follows it
MongoUpdateOne(p) ==
    /\ req[p].pc = "updateOne"
    /\ LET id == req[p].r.id
           status == req[p].r.body.status
       IN  /\ bookings' = BookingsWithStatus(id, status)
           /\ IF GetBooking(id) = Undefined THEN Respond(p, 500)
              ELSE IF FreesPort(status)
              THEN /\ req' = [req EXCEPT ![p].snap = GetBooking(id),
                                         ![p].pc = "setAvailable"]
                   /\ UNCHANGED <<last, freed>>
              ELSE Respond(p, 200)
    /\ UNCHANGED <<backend, ports, currentBookingId>>

\* MongoStorage.updatePortStatus(booking.portId, "available"), then the 200
MongoSetAvailable(p) ==
    /\ req[p].pc = "setAvailable"
    /\ ports' = PortsWithStatus(req[p].snap.portId, "available")
    /\ Respond(p, IF req[p].snap.portId \in DOMAIN ports THEN 200 ELSE 500)
    /\ UNCHANGED <<backend, bookings, currentBookingId>>

(***************************************************************************)
(* IStorage.processUpiPayment(bookingId, upiId, amount).  No route calls   *)
(* it; a call is a task like a request, with kind "pay".  upiId and amount *)
(* are only logged and are left out.                                       *)
(***************************************************************************)
PayReq(i) == [kind |-> "pay", user |-> NoUser, id |-> i, body |-> [status |-> ""]]

\* the calls that are made: for each booking there can be, and for one more
PayRequests == {PayReq(i) : i \in 1..(MaxBookings + 1)}

\* BookingsPaid with the booking confirmed along with the payment
BookingsPaidAndConfirmed(id) ==
    IF FindIndex(id) = 0 THEN bookings
    ELSE [bookings EXCEPT ![FindIndex(id)] =
            WithField(WithField(@, "paymentStatus", "paid"), "status", "confirmed")]

\* bookings.set(id, {...booking, paymentStatus: "paid"}) when the booking is
\* there / updateOne({id}, {$set: {paymentStatus: "paid"}})
BookingsPaid(id) ==
    IF FindIndex(id) = 0 THEN bookings
    ELSE [bookings EXCEPT ![FindIndex(id)] = WithField(@, "paymentStatus", "paid")]

\* what the call gave: "true", "false", or "throws" when MongoDB rejected
PayRespond(p, result) ==
    /\ last' = [kind |-> "pay", code |-> 0, id |-> req[p].r.id, status |-> result]
    /\ req' = [req EXCEPT ![p] = Idle]
    /\ UNCHANGED freed

\* the whole call: isSuccess is Math.random() < 0.9; MemStorage runs without
\* a pause, MongoStorage awaits one updateOne, which can reject
ProcessUpiPayment(p) ==
    /\ req[p].pc = "received"
    /\ req[p].r.kind = "pay"
    /\ \/ \E isSuccess \in BOOLEAN :
             /\ bookings' = IF isSuccess THEN BookingsPaid(req[p].r.id) ELSE bookings
             /\ PayRespond(p, IF isSuccess THEN "true" ELSE "false")
       \/ /\ backend = "mongo"
          /\ UNCHANGED bookings
          /\ PayRespond(p, "throws")
    /\ UNCHANGED <<backend, ports, currentBookingId>>

(***************************************************************************)
(* The read routes: GET /api/stations/:id/ports and GET /api/bookings.     *)
(***************************************************************************)
GetPortsReq(st) == [kind |-> "getPorts", user |-> NoUser, id |-> st, body |-> [status |-> ""]]

GetBookingsReq(u) == [kind |-> "getBookings", user |-> u, id |-> 0, body |-> [status |-> ""]]

\* MemStorage.getStation / MongoStorage.getStation: the seeded stations
GetStation(id) == IF id \in StationIds THEN [id |-> id] ELSE Undefined

\* MemStorage.getPortsByStationId / MongoStorage.getPortsByStationId
PortsByStationId(st) ==
    {[id |-> q, stationId |-> ports[q].stationId, status |-> ports[q].status] :
        q \in {q \in DOMAIN ports : ports[q].stationId = st}}

\* MemStorage.getBookingsByUserId / MongoStorage.getBookingsByUserId
BookingsByUserId(u) == SelectSeq(bookings, LAMBDA b : b.userId = u)

\* {...booking, station, port} of each booking listed
Enriched(bs) ==
    [i \in DOMAIN bs |-> [booking |-> bs[i],
                          station |-> GetStation(bs[i].stationId),
                          port |-> GetPort(bs[i].portId)]]

\* res.json(body): the task ends with status 200 and the body
ReadRespond(p, body) ==
    /\ last' = [kind |-> req[p].r.kind, code |-> 200, id |-> 0, status |-> "",
                body |-> body]
    /\ req' = [req EXCEPT ![p] = Idle]
    /\ UNCHANGED freed

\* GetStationPorts with every port's status set, before the listing, to
\* what the bookings say
GetStationPortsRefreshing(p) ==
    /\ req[p].r.kind = "getPorts"
    /\ req[p].pc = "received"
    /\ ports' = [q \in DOMAIN ports |->
                  [ports[q] EXCEPT !.status =
                      IF \E i \in DOMAIN bookings :
                            /\ bookings[i].portId = q
                            /\ Status(bookings[i]) \in {"pending", "confirmed"}
                      THEN "in-use" ELSE "available"]]
    /\ ReadRespond(p, PortsByStationId(req[p].r.id))
    /\ UNCHANGED <<backend, bookings, currentBookingId>>

\* GET /api/stations/:id/ports: no session is asked for
GetStationPorts(p) ==
    /\ req[p].r.kind = "getPorts"
    /\ \/ /\ req[p].pc = "received"
          /\ backend = "mem"
          /\ ReadRespond(p, PortsByStationId(req[p].r.id))
       \/ /\ req[p].pc = "received"
          /\ backend = "mongo"
          /\ Goto(p, "findPorts")
       \/ /\ req[p].pc = "findPorts"
          /\ ReadRespond(p, PortsByStationId(req[p].r.id))
    /\ UNCHANGED <<backend, ports, bookings, currentBookingId>>

\* GET /api/bookings: 401 without a session; the user's bookings, then the
\* station and the port of each
GetUserBookings(p) ==
    /\ req[p].r.kind = "getBookings"
    /\ \/ /\ req[p].pc = "received"
          /\ req[p].r.user = NoUser
          /\ Respond(p, 401)
       \/ /\ req[p].pc = "received"
          /\ req[p].r.user # NoUser
          /\ backend = "mem"
          /\ ReadRespond(p, Enriched(BookingsByUserId(req[p].r.user)))
       \/ /\ req[p].pc = "received"
          /\ req[p].r.user # NoUser
          /\ backend = "mongo"
          /\ Goto(p, "findBookings")
       \/ /\ req[p].pc = "findBookings"
          /\ req' = [req EXCEPT ![p].snap = BookingsByUserId(req[p].r.user),
                                ![p].pc = "enrich"]
          /\ UNCHANGED <<last, freed>>
       \/ /\ req[p].pc = "enrich"
          /\ ReadRespond(p, Enriched(req[p].snap))
    /\ UNCHANGED <<backend, ports, bookings, currentBookingId>>

(***************************************************************************)
(* IStorage.updatePortStatus(id, status) called by itself: the only way a  *)
(* port gets a status other than the two the booking routes write.  A call *)
(* is a task like a request, with kind "setPort".                          *)
(***************************************************************************)
SetPortReq(id, status) ==
    [kind |-> "setPort", user |-> NoUser, id |-> id, body |-> [status |-> status]]

\* what the call gave: "returns", or "throws" (Port not found, or MongoDB
\* rejected)
SetPortRespond(p, result) ==
    /\ last' = [kind |-> "setPort", code |-> 0, id |-> req[p].r.id, status |-> result]
    /\ req' = [req EXCEPT ![p] = Idle]
    /\ UNCHANGED freed

\* MemStorage runs without a pause and throws before writing when the port
\* is missing; MongoStorage awaits updateOne, then getPort, and throws then
UpdatePortStatus(p) ==
    /\ req[p].r.kind = "setPort"
    /\ \/ /\ req[p].pc = "received"
          /\ backend = "mem"
          /\ ports' = PortsWithStatus(req[p].r.id, req[p].r.body.status)
          /\ SetPortRespond(p, IF GetPort(req[p].r.id) = Undefined
                               THEN "throws" ELSE "returns")
       \/ /\ req[p].pc = "received"
          /\ backend = "mongo"
          /\ Goto(p, "updatePort")
          /\ UNCHANGED ports
       \/ /\ req[p].pc = "updatePort"
          /\ ports' = PortsWithStatus(req[p].r.id, req[p].r.body.status)
          /\ Goto(p, "reloadPort")
       \/ /\ req[p].pc = "reloadPort"
          /\ SetPortRespond(p, IF GetPort(req[p].r.id) = Undefined
                               THEN "throws" ELSE "returns")
          /\ UNCHANGED ports
       \/ /\ req[p].pc \in {"updatePort", "reloadPort"}
          /\ SetPortRespond(p, "throws")
          /\ UNCHANGED ports
    /\ UNCHANGED <<backend, bookings, currentBookingId>>

(***************************************************************************)
(* Specifications.  Spec: the server takes one request at a time (a new    *)
(* request arrives when none is in flight).  SpecConc: requests overlap.   *)
(* SpecOdd: as Spec, with bodies no form sends.  SpecReliable: as Spec,    *)
(* and no storage call fails.  SpecPay: as Spec, with payment calls.       *)
(* SpecGuard: as Spec, with fewer requests that succeed.  SpecRead: as     *)
(* Spec, with the read routes.  SpecMaint: as Spec, with ports put in and  *)
(* out of maintenance.                                                     *)
(***************************************************************************)
Step(p) ==
    \/ PostEnter(p)
    \/ PostCheckPort(p)
    \/ PostGetPort(p)
    \/ MongoMaxId(p)
    \/ MongoInsert(p)
    \/ MongoSetInUse(p)
    \/ PatchEnter(p)
    \/ PatchCheckBooking(p)
    \/ PatchGetBooking(p)
    \/ MongoUpdateOne(p)
    \/ MongoSetAvailable(p)

Next ==
    \/ \E r \in Requests : Quiet /\ Receive(1, r)
    \/ \E p \in Procs : Step(p)
    \/ \E p \in Procs : MongoFail(p)

Spec == Init /\ [][Next]_vars

NextConc ==
    \/ \E p \in Procs, r \in ConcRequests : Receive(p, r)
    \/ \E p \in Procs : Step(p)
    \/ \E p \in Procs : MongoFail(p)

SpecConc == Init /\ [][NextConc]_vars

NextOdd ==
    \/ \E r \in OddRequests : Quiet /\ Receive(1, r)
    \/ \E p \in Procs : Step(p)
    \/ \E p \in Procs : MongoFail(p)

SpecOdd == Init /\ [][NextOdd]_vars

NextReliable ==
    \/ \E r \in Requests : Quiet /\ Receive(1, r)
    \/ \E p \in Procs : Step(p)

SpecReliable == Init /\ [][NextReliable]_vars

\* the requests that are made along with payment calls
PayTimeRequests ==
    {PostReq(1, b) : b \in {Body(1, 1, W1), PaidBody(1, 1, W1), Body(1, 2, W1)}}
        \cup {PatchReq(1, i, s) : i \in 1..MaxBookings,
                                  s \in {"confirmed", "cancelled"}}
        \cup PayRequests

NextPay ==
    \/ \E r \in PayTimeRequests : Quiet /\ Receive(1, r)
    \/ \E p \in Procs : Step(p)
    \/ \E p \in Procs : MongoFail(p)
    \/ \E p \in Procs : ProcessUpiPayment(p)

SpecPay == Init /\ [][NextPay]_vars

\* the requests that the handlers turn down or correct, and those that
\* create and update the bookings they are about
GuardRequests ==
    {PostReq(u, b) : u \in Users,
                     b \in {Body(1, 1, W1), WithField(Body(1, 1, W1), "userId", 2)}}
        \cup {PostReq(1, Body(1, 14, W1)), PostReq(NoUser, Body(1, 1, W1))}
        \cup {PatchReq(u, i, s) : u \in Users, i \in 1..MaxBookings,
                                  s \in {"confirmed", "completed", "cancelled"}}
        \cup {PatchReq(NoUser, 1, "cancelled")}

NextGuard ==
    \/ \E r \in GuardRequests : Quiet /\ Receive(1, r)
    \/ \E p \in Procs : Step(p)
    \/ \E p \in Procs : MongoFail(p)

SpecGuard == Init /\ [][NextGuard]_vars

\* the requests that are made along with the listings
ReadTimeRequests ==
    {GetPortsReq(st) : st \in {1, 9}}
        \cup {GetBookingsReq(u) : u \in Users \cup {NoUser}}
        \cup {PostReq(u, Body(1, 1, W1)) : u \in Users}
        \cup {PostReq(1, Body(1, 2, W1)), PatchReq(1, 1, "cancelled")}

NextRead ==
    \/ \E r \in ReadTimeRequests : Quiet /\ Receive(1, r)
    \/ \E p \in Procs : Step(p)
    \/ \E p \in Procs : MongoFail(p)
    \/ \E p \in Procs : GetStationPorts(p)
    \/ \E p \in Procs : GetUserBookings(p)

SpecRead == Init /\ [][NextRead]_vars

\* the requests that are made along with changes of a port's status
MaintTimeRequests ==
    {PostReq(1, b) : b \in {Body(1, 1, W1), Body(1, 2, W1)}}
        \cup {PatchReq(1, i, s) : i \in 1..MaxBookings,
                                  s \in {"confirmed", "completed", "cancelled"}}
        \cup {SetPortReq(q, s) : q \in {1, 14}, s \in {"maintenance", "available"}}

NextMaint ==
    \/ \E r \in MaintTimeRequests : Quiet /\ Receive(1, r)
    \/ \E p \in Procs : Step(p)
    \/ \E p \in Procs : MongoFail(p)
    \/ \E p \in Procs : UpdatePortStatus(p)

SpecMaint == Init /\ [][NextMaint]_vars

(***************************************************************************)
(* Vocabulary of the properties.                                           *)
(***************************************************************************)
\* the duration bound of the booking form (handleDurationChange), in minutes
MinDuration == 30
MaxDuration == 120

\* a booking that occupies its port
Active(b) == Status(b) \in {"pending", "confirmed"}

Terminal(b) == Status(b) \in {"completed", "cancelled"}

\* start before end, duration within the bound
ValidWindow(d) ==
    /\ d.startTime < d.endTime
    /\ d.duration >= MinDuration
    /\ d.duration <= MaxDuration

\* a booking that is not known to have released its port: every status but
\* completed and cancelled, a missing status included
Occupies(b) == ~Terminal(b)

\* no booking that may occupy the port of d overlaps the window of d
NoActiveOverlap(d) ==
    \A i \in DOMAIN bookings :
        (bookings[i].portId = d.portId /\ Occupies(bookings[i]))
            => ~Overlaps(bookings[i], d)

\* this step sends the response of the request at p
Answers(p) == InFlight(p) /\ req'[p].pc = "idle"

\* the request at p is a POST of an authenticated user that parse() accepted,
\* for a port that exists and a valid window
GoodPost(p) ==
    /\ req[p].r.kind = "post"
    /\ req[p].data # Undefined
    /\ req[p].data.portId \in DOMAIN ports
    /\ ValidWindow(req[p].data)

\* the request at p is a PATCH to `status` by the owner of the booking
OwnerPatch(p, status) ==
    /\ InFlight(p)
    /\ req[p].r.kind = "patch"
    /\ req[p].r.body.status = status
    /\ GetBooking(req[p].r.id) # Undefined
    /\ GetBooking(req[p].r.id).userId = req[p].r.user

\* a pending or confirmed booking on the port of d overlaps the window of d
Reserved(d) ==
    \E i \in DOMAIN bookings :
        /\ bookings[i].portId = d.portId
        /\ Active(bookings[i])
        /\ Overlaps(bookings[i], d)

\* the handler is about to turn the request at p down because the port it
\* read is not "available", while a booking holds the requested window
PortTaken(p) ==
    /\ req[p].r.kind = "post"
    /\ req[p].data # Undefined
    /\ Reserved(req[p].data)
    /\ \/ /\ req[p].pc = "checkPort"
          /\ req[p].snap # Undefined
          /\ req[p].snap.status # "available"
       \/ /\ req[p].pc = "getPort"
          /\ GetPort(req[p].data.portId) # Undefined
          /\ GetPort(req[p].data.portId).status # "available"

(***************************************************************************)
(* C1..C10                                                                 *)
(***************************************************************************)
\* C1: no double-booking.  On every port, no two bookings with status
\* pending or confirmed have overlapping windows [start, end) on one date.
C1_NoDoubleBooking ==
    \A i, j \in DOMAIN bookings :
        /\ i # j
        /\ bookings[i].portId = bookings[j].portId
        /\ Active(bookings[i])
        /\ Active(bookings[j])
        => ~Overlaps(bookings[i], bookings[j])

\* C2: of two concurrent requests for overlapping windows on one port only
\* one is answered 201.  A request that had read the port when an overlapping
\* request was answered 201 is answered 409 (or 500 when a storage call failed).
C2_OneWinner ==
    [][\A p \in Procs :
          Answers(p) /\ req[p].rivalWon => last'.code \in {409, 500}]_vars

\* C3: every change of a booking's status from one of the four statuses is
\* pending->confirmed, confirmed->completed, pending->cancelled or
\* confirmed->cancelled.
C3_Monotone ==
    [][\A i \in DOMAIN bookings :
          ( Status(bookings[i]) \in BookingStatuses
            /\ Status(bookings'[i]) # Status(bookings[i]) )
          => <<Status(bookings[i]), Status(bookings'[i])>> \in
                { <<"pending", "confirmed">>, <<"confirmed", "completed">>,
                  <<"pending", "cancelled">>, <<"confirmed", "cancelled">> }]_vars

\* C4: a booking that is completed or cancelled keeps its status.
C4_TerminalAbsorbing ==
    [][\A i \in DOMAIN bookings :
          Terminal(bookings[i]) => Status(bookings'[i]) = Status(bookings[i])]_vars

\* C5: a booking has status pending when it is created.
C5_CreatedPending ==
    [][\A i \in DOMAIN bookings' :
          i \notin DOMAIN bookings => Status(bookings'[i]) = "pending"]_vars

\* C6: a valid request for an existing port whose window overlaps no active
\* booking on that port is answered 201 (or 500 when a storage call failed),
\* whatever the port's status flag.
C6_FreeWindowGranted ==
    [][\A p \in Procs :
          Answers(p) /\ GoodPost(p) /\ NoActiveOverlap(req[p].data)
            => last'.code \in {201, 500}]_vars

\* C7: after a cancellation of booking b was answered 200, a valid request
\* for a window overlapping b's on b's port, which no active booking on the
\* port overlaps, is answered 201 (or 500 when a storage call failed).
C7_CancelFrees ==
    [][\A p \in Procs :
          /\ Answers(p)
          /\ GoodPost(p)
          /\ NoActiveOverlap(req[p].data)
          /\ \E i \in DOMAIN bookings :
                /\ bookings[i].id \in freed
                /\ Status(bookings[i]) = "cancelled"
                /\ bookings[i].portId = req[p].data.portId
                /\ Overlaps(bookings[i], req[p].data)
          => last'.code \in {201, 500}]_vars

\* C8: a confirm (or complete) request that repeats the request answered 200
\* just before it changes no booking and no port and is answered 409 (or 500
\* when a storage call failed).
C8_RepeatRejected ==
    [][\A p \in Procs :
          req[p].again /\ req[p].r.body.status \in {"confirmed", "completed"}
            => /\ UNCHANGED <<bookings, ports>>
               /\ Answers(p) => last'.code \in {409, 500}]_vars

\* C9: a cancel request by the owner of a booking that was completed or
\* cancelled when the request arrived changes no booking and no port and is
\* answered 409 (or 500 when a storage call failed).
C9_CancelTerminalRejected ==
    [][\A p \in Procs :
          OwnerPatch(p, "cancelled") /\ req[p].was \in {"completed", "cancelled"}
            => /\ UNCHANGED <<bookings, ports>>
               /\ Answers(p) => last'.code \in {409, 500}]_vars

\* C10: a booking request turned down because its port is taken is answered
\* 409, not the 400 of a validation failure.
C10_ConflictIs409 ==
    [][\A p \in Procs :
          Answers(p) /\ PortTaken(p) => last'.code \in {409, 500}]_vars

(***************************************************************************)
(* C11..C20                                                                *)
(***************************************************************************)
\* the request at p is a POST that parse() accepted and that names a port
\* the ports collection does not hold
NoSuchPort(p) ==
    /\ req[p].r.kind = "post"
    /\ req[p].data # Undefined
    /\ req[p].data.portId \notin DOMAIN ports

\* C11: a booking request naming a port that does not exist changes no
\* booking and no port and is answered 404 (500 when the MongoDB call failed).
C11_NoPortNotFound ==
    [][\A p \in Procs :
          NoSuchPort(p)
            => ( /\ UNCHANGED <<bookings, ports>>
                 /\ Answers(p) =>
                       \/ last'.code = 404
                       \/ backend = "mongo" /\ last'.code = 500 )]_vars

\* a booking request has been answered 404 while bookings exist
C11_Witness ==
    /\ last.kind = "post"
    /\ last.code = 404
    /\ bookings # <<>>

\* C12: every stored booking names a station and a port that exist.
C12_ReferencesExist ==
    \A i \in DOMAIN bookings :
        /\ bookings[i].stationId \in StationIds
        /\ bookings[i].portId \in DOMAIN ports

\* the booking that the request at p has inserted under the id it computed
\* is in the collection after this step
LeavesBooking(p) ==
    /\ req[p].id # 0
    /\ \E i \in DOMAIN bookings' : bookings'[i].id = req[p].id

\* C13: a booking request that is not answered 201 leaves no booking of its
\* own behind.
C13_AllOrNothing ==
    [][\A p \in Procs :
          (Answers(p) /\ req[p].r.kind = "post" /\ last'.code # 201)
            => ~LeavesBooking(p)]_vars

\* the port has a booking with status pending or confirmed
HasActiveBooking(id) ==
    \E i \in DOMAIN bookings : bookings[i].portId = id /\ Active(bookings[i])

\* C14: with no request in flight, a port's status is "in-use" exactly when
\* the port has a pending or confirmed booking.
C14_InUseIffActive ==
    Quiet => \A id \in DOMAIN ports :
                (ports[id].status = "in-use") <=> HasActiveBooking(id)

\* the request at p is a PATCH to one of the four statuses, made by a user
\* who is not the user of the booking it names
StrangerPatch(p) ==
    /\ InFlight(p)
    /\ req[p].r.kind = "patch"
    /\ req[p].r.user # NoUser
    /\ req[p].r.body.status \in BookingStatuses
    /\ GetBooking(req[p].r.id) # Undefined
    /\ GetBooking(req[p].r.id).userId # req[p].r.user

\* C15: a status update by a user who does not own the booking changes no
\* booking and no port and is answered 403 (500 when the MongoDB call failed).
C15_StrangerForbidden ==
    [][\A p \in Procs :
          StrangerPatch(p)
            => ( /\ UNCHANGED <<bookings, ports>>
                 /\ Answers(p) =>
                       \/ last'.code = 403
                       \/ backend = "mongo" /\ last'.code = 500 )]_vars

\* a status update has been answered 403 while an active booking exists
C15_Witness ==
    /\ last.kind = "patch"
    /\ last.code = 403
    /\ \E i \in DOMAIN bookings : Active(bookings[i])

\* processUpiPayment has returned true for this booking
Paid(b) == "paymentStatus" \in DOMAIN b /\ b.paymentStatus = "paid"

\* C16: a booking is confirmed only after a payment for it has succeeded.
C16_ConfirmedOnlyPaid ==
    \A i \in DOMAIN bookings :
        Status(bookings[i]) = "confirmed" => Paid(bookings[i])

\* C17: a payment call changes no booking's status and no port, and a call
\* whose payment fails changes no booking at all.
C17_PaymentKeepsStatus ==
    [][\A p \in Procs :
          (Answers(p) /\ req[p].r.kind = "pay")
            => ( /\ ports' = ports
                 /\ DOMAIN bookings' = DOMAIN bookings
                 /\ \A i \in DOMAIN bookings :
                       Status(bookings'[i]) = Status(bookings[i])
                 /\ last'.status # "true" => bookings' = bookings )]_vars

\* a payment for an active booking has failed
C17_Witness ==
    /\ last.kind = "pay"
    /\ last.status = "false"
    /\ \E i \in DOMAIN bookings :
          bookings[i].id = last.id /\ Active(bookings[i])

\* the request at p was sent to one of the two routes without a session
Anonymous(p) ==
    /\ InFlight(p)
    /\ req[p].r.kind \in {"post", "patch"}
    /\ req[p].r.user = NoUser

\* C18: a request without a session is answered 401 by the first step of its
\* handler, which reads and writes nothing in the storage.
C18_AnonymousRejected ==
    [][\A p \in Procs :
          Anonymous(p)
            => ( /\ Answers(p)
                 /\ last'.code = 401
                 /\ UNCHANGED <<bookings, ports, currentBookingId>> )]_vars

\* a status update without a session, for an active booking, was answered 401
C18_Witness ==
    /\ last.kind = "patch"
    /\ last.code = 401
    /\ GetBooking(1) # Undefined
    /\ Active(GetBooking(1))

\* C19: a booking created by a request has the userId of the session that
\* sent the request.
C19_UserIsRequester ==
    [][\A p \in Procs :
          (req[p].r.kind = "post" /\ req'[p].pc # req[p].pc)
            => \A i \in DOMAIN bookings' \ DOMAIN bookings :
                  bookings'[i].userId = req[p].r.user]_vars

\* a request whose body carries another user's id has stored its booking,
\* under the id of its session
C19_Witness ==
    \E p \in Procs :
        /\ req[p].pc = "setInUse"
        /\ "userId" \in DOMAIN req[p].r.body
        /\ req[p].r.body.userId # req[p].r.user
        /\ \E i \in DOMAIN bookings :
              bookings[i].id = req[p].id /\ bookings[i].userId = req[p].r.user

\* C20: every stored booking starts before it ends and has a duration of
\* MinDuration to MaxDuration minutes.
C20_WindowsValid ==
    \A i \in DOMAIN bookings : ValidWindow(bookings[i])

(***************************************************************************)
(* C21..C30                                                                *)
(***************************************************************************)
\* the statuses of a port: available, in-use, maintenance
PortStatuses == {"available", "in-use", "maintenance"}

\* C21: every stored booking has one of the four booking statuses and every
\* port one of the three port statuses.
C21_StatusDomains ==
    /\ \A i \in DOMAIN bookings : Status(bookings[i]) \in BookingStatuses
    /\ \A id \in DOMAIN ports : ports[id].status \in PortStatuses

\* the ids of the stored bookings
BookingIds(bs) == {bs[i].id : i \in DOMAIN bs}

\* C22: a booking id that is in the collection stays in it.
C22_NeverDeleted ==
    [][BookingIds(bookings) \subseteq BookingIds(bookings')]_vars

\* a cancelled booking is still stored after a later booking was created
C22_Witness ==
    /\ Len(bookings) = 2
    /\ Status(bookings[1]) = "cancelled"

\* the request at p is a PATCH to one of the four statuses, sent with a
\* session, that names a booking the collection does not hold
NoSuchBooking(p) ==
    /\ InFlight(p)
    /\ req[p].r.kind = "patch"
    /\ req[p].r.user # NoUser
    /\ req[p].r.body.status \in BookingStatuses
    /\ GetBooking(req[p].r.id) = Undefined

\* C23: a status update naming a booking that does not exist changes no
\* booking and no port and is answered 404 (500 when the MongoDB call failed).
C23_NoBookingNotFound ==
    [][\A p \in Procs :
          NoSuchBooking(p)
            => ( /\ UNCHANGED <<bookings, ports>>
                 /\ Answers(p) =>
                       \/ last'.code = 404
                       \/ backend = "mongo" /\ last'.code = 500 )]_vars

\* a status update has been answered 404 while another booking is stored
C23_Witness ==
    /\ last.kind = "patch"
    /\ last.code = 404
    /\ bookings # <<>>

\* the columns of a booking other than its status
FixedKeys ==
    {"id", "userId", "stationId", "portId", "date", "startTime", "endTime",
     "duration"}

Fixed(b) == [k \in FixedKeys |-> b[k]]

\* C24: a stored booking keeps its id, user, station, port, date, times and
\* duration, and gains no field but status and paymentStatus; a status
\* update or payment call changes no booking but the one it names.
C24_FieldsFixed ==
    [][/\ \A i \in DOMAIN bookings :
             /\ i \in DOMAIN bookings'
             /\ Fixed(bookings'[i]) = Fixed(bookings[i])
             /\ DOMAIN bookings'[i] \subseteq
                    DOMAIN bookings[i] \cup {"status", "paymentStatus"}
       /\ \A p \in Procs :
             (InFlight(p) /\ req[p].r.kind \in {"patch", "pay"})
               => \A i \in DOMAIN bookings :
                     bookings[i].id # req[p].r.id => bookings'[i] = bookings[i]]_vars

\* of two stored bookings the first is paid and cancelled, the second is not
\* paid
C24_Witness ==
    /\ Len(bookings) = 2
    /\ Paid(bookings[1])
    /\ Status(bookings[1]) = "cancelled"
    /\ ~Paid(bookings[2])

\* the port that the request at p is about: the port its body names, or the
\* port of the booking it names; 0 when there is none
PortOf(p) ==
    IF req[p].r.kind = "post"
    THEN IF req[p].data # Undefined THEN req[p].data.portId ELSE 0
    ELSE IF req[p].r.kind = "patch" /\ GetBooking(req[p].r.id) # Undefined
    THEN GetBooking(req[p].r.id).portId
    ELSE 0

\* this step is a step of the handler of the request at p
HandlerStep(p) == InFlight(p) /\ req'[p].pc # req[p].pc

\* no booking is stored for port id but one the request at p has inserted
NoOtherBookingOn(id, p) ==
    \A i \in DOMAIN bookings :
        bookings[i].portId = id
            => (req[p].pc = "setInUse" /\ bookings[i].id = req[p].id)

\* C25: a step of a request about one port changes no other port and no
\* booking of another port and adds no booking to another port; and a booking
\* request for a port that is seeded "available" and has no booking is
\* answered 201 (500 when a MongoDB call failed), whatever is stored or in
\* flight for other ports.
C25_PortsIndependent ==
    [][\A p \in Procs :
          /\ HandlerStep(p) =>
                /\ \A id \in DOMAIN ports :
                      id # PortOf(p) =>
                        /\ ports'[id] = ports[id]
                        /\ \A i \in DOMAIN bookings :
                              bookings[i].portId = id => bookings'[i] = bookings[i]
                /\ \A i \in DOMAIN bookings' \ DOMAIN bookings :
                      bookings'[i].portId = PortOf(p)
          /\ ( /\ Answers(p)
               /\ req[p].r.kind = "post"
               /\ PortOf(p) \in DOMAIN ports
               /\ SeedPorts[PortOf(p)].status = "available"
               /\ NoOtherBookingOn(PortOf(p), p) )
             => \/ last'.code = 201
                \/ backend = "mongo" /\ last'.code = 500]_vars

\* a booking request for port 2 has been answered 201 while port 1 has a
\* booking and a request about port 1 is in flight
C25_Witness ==
    /\ last.kind = "post"
    /\ last.code = 201
    /\ \E i, j \in DOMAIN bookings :
          bookings[i].portId = 1 /\ bookings[j].portId = 2 /\ i < j
    /\ \E q \in Procs : InFlight(q) /\ PortOf(q) = 1

\* the task at p is a listing: one of the two read routes
Listing(p) == InFlight(p) /\ req[p].r.kind \in {"getPorts", "getBookings"}

\* C26: a step of GET /api/stations/:id/ports or of GET /api/bookings
\* changes no booking, no port and not the id counter, whatever it answers
C26_ReadsDoNotWrite ==
    [][\A p \in Procs :
          (Listing(p) /\ HandlerStep(p)) =>
              UNCHANGED <<bookings, ports, currentBookingId>>]_vars

\* both listings have been answered with what is stored: a user's list with
\* a booking and its port in use
C26_Witness ==
    /\ last.kind = "getBookings"
    /\ last.code = 200
    /\ last.body # <<>>
    /\ last.body[1].port.status = "in-use"

\* C27: with requests taken one at a time, no port has two bookings that
\* are pending or confirmed at the same moment.
C27_OneActivePerPort ==
    \A i, j \in DOMAIN bookings :
        /\ i # j
        /\ bookings[i].portId = bookings[j].portId
        /\ Active(bookings[i])
        => ~Active(bookings[j])

\* C28: no two stored bookings share an id, however the createBooking calls
\* interleave.
C28_UniqueIds ==
    \A i, j \in DOMAIN bookings : i # j => bookings[i].id # bookings[j].id

\* C29: the stationId of every stored booking is the stationId of the port
\* its portId names.
C29_StationOwnsPort ==
    \A i \in DOMAIN bookings :
        /\ bookings[i].portId \in DOMAIN ports
        /\ bookings[i].stationId = ports[bookings[i].portId].stationId

\* the task at p is a request to one of the two booking routes
BookingRequest(p) == InFlight(p) /\ req[p].r.kind \in {"post", "patch"}

====
